---------------------------- MODULE Spec2Model ----------------------------
(***************************************************************************)
(* Model of traffic_light_simulator.py: two traffic lights (NorthSouth     *)
(* leader, EastWest follower), four spawners and the list of cars, driven  *)
(* by the frames of Simulation.run.                                        *)
(*                                                                         *)
(* Time is in milliseconds, as pygame.time.get_ticks() and Clock.tick()    *)
(* give it.  Positions are exact multiples of 1/2000 pixel: with dt =      *)
(* dtms/1000 s a displacement speed*dt is speed*dtms/1000 px, and half a   *)
(* car length is length/2 px, so every coordinate the code computes is a   *)
(* whole number of these units (the code's floating point rounding is not  *)
(* modelled).                                                              *)
(***************************************************************************)
EXTENDS Integers, Sequences, FiniteSets, TLC

VARIABLES
    now,               \* pygame.time.get_ticks(): wall clock, ms
    running,           \* Simulation.running
    paused,            \* Simulation.paused
    traffic_light_ns,  \* Simulation.traffic_light_ns
    traffic_light_ew,  \* Simulation.traffic_light_ew
    cars,              \* Simulation.cars (list, in append order)
    spawners,          \* Simulation.spawners (list of four)
    trace              \* observation of the last frame (what it did)

vars == <<now, running, paused, traffic_light_ns, traffic_light_ew, cars,
          spawners, trace>>

---------------------------------------------------------------------------
(* Program constants *)

ANCHO_PANTALLA == 900
ALTO_PANTALLA == 600
TIEMPO_VERDE == 6000
TIEMPO_AMARILLO == 2000
INTERVAL_MIN == 1500
INTERVAL_MAX == 4000
CAR_SPEED == 120
CAR_LENGTH == 25
CAR_WIDTH == 15

LightState == {"VERDE", "AMARILLO", "ROJO"}
Direction == {"NORTE", "SUR", "ESTE", "OESTE"}

\* n pixels, in position units (1/2000 px)
Px(n) == 2000 * n

---------------------------------------------------------------------------
(* Bounds of the model *)

\* frames of Simulation.run a behaviour of Spec is followed for
MaxFrames == 4
\* events pygame.event.get() returns in one frame, at most
MaxEvents == 2

\* Clock.tick() results (ms) offered to a frame: a short frame and a long
\* one (a stalled window), in which every light threshold is passed
DtSet == {1000, 8000}
\* results of random.randint(1500, 4000) offered to a spawner
RandChoices == {INTERVAL_MIN, INTERVAL_MAX}
\* event kinds of pygame.event.get()
EventKinds == {"QUIT", "ESCAPE", "SPACE"}

---------------------------------------------------------------------------
(* TrafficLight *)

\* Variant of TrafficLight.update that changes state only when the time in
\* the state exceeds the threshold (> for >=)
TrafficLightUpdate_Strict(luz, current_ms) ==
    LET tiempo_en_estado == current_ms - luz.last_change_ms IN
    IF luz.state = "VERDE" /\ tiempo_en_estado > TIEMPO_VERDE
    THEN [luz EXCEPT !.state = "AMARILLO", !.last_change_ms = current_ms]
    ELSE IF luz.state = "AMARILLO" /\ tiempo_en_estado > TIEMPO_AMARILLO
    THEN [luz EXCEPT !.state = "ROJO", !.last_change_ms = current_ms]
    ELSE IF luz.state = "ROJO"
            /\ tiempo_en_estado > TIEMPO_VERDE + TIEMPO_AMARILLO
    THEN [luz EXCEPT !.state = "VERDE", !.last_change_ms = current_ms]
    ELSE luz

\* Variant of TrafficLight.update with "if" for "elif": the tests follow one
\* another on the state just assigned, with the elapsed time read at entry
TrafficLightUpdate_Cascade(luz, current_ms) ==
    LET tiempo_en_estado == current_ms - luz.last_change_ms
        l1 == IF luz.state = "VERDE" /\ tiempo_en_estado >= TIEMPO_VERDE
              THEN [luz EXCEPT !.state = "AMARILLO",
                               !.last_change_ms = current_ms]
              ELSE luz
        l2 == IF l1.state = "AMARILLO" /\ tiempo_en_estado >= TIEMPO_AMARILLO
              THEN [l1 EXCEPT !.state = "ROJO", !.last_change_ms = current_ms]
              ELSE l1
    IN IF l2.state = "ROJO"
          /\ tiempo_en_estado >= TIEMPO_VERDE + TIEMPO_AMARILLO
       THEN [l2 EXCEPT !.state = "VERDE", !.last_change_ms = current_ms]
       ELSE l2

\* TrafficLight.update(current_ms)
TrafficLightUpdate(luz, current_ms) ==
    LET tiempo_en_estado == current_ms - luz.last_change_ms IN
    IF luz.state = "VERDE" /\ tiempo_en_estado >= TIEMPO_VERDE
    THEN [luz EXCEPT !.state = "AMARILLO", !.last_change_ms = current_ms]
    ELSE IF luz.state = "AMARILLO" /\ tiempo_en_estado >= TIEMPO_AMARILLO
    THEN [luz EXCEPT !.state = "ROJO", !.last_change_ms = current_ms]
    ELSE IF luz.state = "ROJO"
            /\ tiempo_en_estado >= TIEMPO_VERDE + TIEMPO_AMARILLO
    THEN [luz EXCEPT !.state = "VERDE", !.last_change_ms = current_ms]
    ELSE luz

\* TrafficLight.is_green_for(direction)
is_green_for(luz, direction) ==
    LET mismo_eje ==
            IF direction \in {"NORTE", "SUR"}
            THEN luz.orientation \in {"NORTE", "SUR"}
            ELSE luz.orientation \in {"ESTE", "OESTE"}
    IN mismo_eje /\ luz.state = "VERDE"

\* Variant of the light part of Simulation.update in which the follower
\* runs its own timer whatever the leader's state
LightsUpdate_FreeFollower(ns, ew, current_ms) ==
    [ns |-> TrafficLightUpdate(ns, current_ms),
     ew |-> TrafficLightUpdate(ew, current_ms)]

\* The light part of Simulation.update: the leader runs free, the follower
\* runs only while the leader is ROJO and is otherwise held ROJO.
LightsUpdate(ns, ew, current_ms) ==
    LET ns2 == TrafficLightUpdate(ns, current_ms) IN
    [ns |-> ns2,
     ew |-> IF ns2.state = "ROJO"
            THEN TrafficLightUpdate(ew, current_ms)
            ELSE [ew EXCEPT !.state = "ROJO", !.last_change_ms = current_ms]]

---------------------------------------------------------------------------
(* Car *)

\* Car(direction, Vector2(spawn_pos)) with the dataclass defaults
NewCar(direction, pos) ==
    [direction |-> direction, x |-> pos[1], y |-> pos[2],
     speed |-> CAR_SPEED, length |-> CAR_LENGTH, width |-> CAR_WIDTH]

stop_line_y == Px(ALTO_PANTALLA) \div 2 - Px(40)
stop_line_x == Px(ANCHO_PANTALLA) \div 2 - Px(40)

\* length/2, in position units
HalfLength(car) == 1000 * car.length

\* Variant of the loop body of Car.update whose SUR branch zeroes dx
\* where it should zero dy
BrakeFor_SurDx(car, luz, d) ==
    IF ~is_green_for(luz, car.direction)
    THEN IF car.direction = "NORTE" /\ car.y - HalfLength(car) <= stop_line_y
         THEN IF car.y - HalfLength(car) > stop_line_y - Px(5)
              THEN <<d[1], 0>> ELSE d
         ELSE IF car.direction = "SUR"
                 /\ car.y + HalfLength(car) >= stop_line_y + Px(80)
         THEN IF car.y + HalfLength(car) < stop_line_y + Px(85)
              THEN <<0, d[2]>> ELSE d
         ELSE IF car.direction = "OESTE"
                 /\ car.x - HalfLength(car) <= stop_line_x
         THEN IF car.x - HalfLength(car) > stop_line_x - Px(5)
              THEN <<0, d[2]>> ELSE d
         ELSE IF car.direction = "ESTE"
                 /\ car.x + HalfLength(car) >= stop_line_x + Px(80)
         THEN IF car.x + HalfLength(car) < stop_line_x + Px(85)
              THEN <<0, d[2]>> ELSE d
         ELSE d
    ELSE d

\* Variant of the loop body of Car.update without the 5 px band: a car is
\* stopped wherever it is past the stop line
BrakeFor_NoBand(car, luz, d) ==
    IF ~is_green_for(luz, car.direction)
    THEN IF car.direction = "NORTE" /\ car.y - HalfLength(car) <= stop_line_y
         THEN <<d[1], 0>>
         ELSE IF car.direction = "SUR"
                 /\ car.y + HalfLength(car) >= stop_line_y + Px(80)
         THEN <<d[1], 0>>
         ELSE IF car.direction = "OESTE"
                 /\ car.x - HalfLength(car) <= stop_line_x
         THEN <<0, d[2]>>
         ELSE IF car.direction = "ESTE"
                 /\ car.x + HalfLength(car) >= stop_line_x + Px(80)
         THEN <<0, d[2]>>
         ELSE d
    ELSE d

\* One turn of the loop "for luz in luces" of Car.update: the displacement
\* d = <<dx, dy>> after the turn for luz.
BrakeFor(car, luz, d) ==
    IF ~is_green_for(luz, car.direction)
    THEN IF car.direction = "NORTE" /\ car.y - HalfLength(car) <= stop_line_y
         THEN IF car.y - HalfLength(car) > stop_line_y - Px(5)
              THEN <<d[1], 0>> ELSE d
         ELSE IF car.direction = "SUR"
                 /\ car.y + HalfLength(car) >= stop_line_y + Px(80)
         THEN IF car.y + HalfLength(car) < stop_line_y + Px(85)
              THEN <<d[1], 0>> ELSE d
         ELSE IF car.direction = "OESTE"
                 /\ car.x - HalfLength(car) <= stop_line_x
         THEN IF car.x - HalfLength(car) > stop_line_x - Px(5)
              THEN <<0, d[2]>> ELSE d
         ELSE IF car.direction = "ESTE"
                 /\ car.x + HalfLength(car) >= stop_line_x + Px(80)
         THEN IF car.x + HalfLength(car) < stop_line_x + Px(85)
              THEN <<0, d[2]>> ELSE d
         ELSE d
    ELSE d

\* The loop "for luz in luces" of Car.update
RECURSIVE BrakeLoop(_, _, _)
BrakeLoop(car, luces, d) ==
    IF luces = <<>> THEN d
    ELSE BrakeLoop(car, Tail(luces), BrakeFor(car, Head(luces), d))

\* speed * dt for dt = dtms / 1000, in position units
Displacement(car, dtms) == 2 * car.speed * dtms

\* Variant of Car.update whose last line adds dx to position.y
CarUpdate_BothDx(car, dtms, luces) ==
    LET d0 == IF car.direction = "NORTE" THEN <<0, -Displacement(car, dtms)>>
              ELSE IF car.direction = "SUR" THEN <<0, Displacement(car, dtms)>>
              ELSE IF car.direction = "ESTE" THEN <<Displacement(car, dtms), 0>>
              ELSE IF car.direction = "OESTE"
                   THEN <<-Displacement(car, dtms), 0>>
              ELSE <<0, 0>>
        d == BrakeLoop(car, luces, d0)
    IN [car EXCEPT !.x = car.x + d[1], !.y = car.y + d[1]]

\* Car.update(dt, luces), dt = dtms / 1000
CarUpdate(car, dtms, luces) ==
    LET d0 == IF car.direction = "NORTE" THEN <<0, -Displacement(car, dtms)>>
              ELSE IF car.direction = "SUR" THEN <<0, Displacement(car, dtms)>>
              ELSE IF car.direction = "ESTE" THEN <<Displacement(car, dtms), 0>>
              ELSE IF car.direction = "OESTE"
                   THEN <<-Displacement(car, dtms), 0>>
              ELSE <<0, 0>>
        d == BrakeLoop(car, luces, d0)
    IN [car EXCEPT !.x = car.x + d[1], !.y = car.y + d[2]]

\* Car.is_off_screen()
is_off_screen(car) ==
    \/ car.x < -Px(50) \/ car.x > Px(ANCHO_PANTALLA) + Px(50)
    \/ car.y < -Px(50) \/ car.y > Px(ALTO_PANTALLA) + Px(50)

---------------------------------------------------------------------------
(* Spawner *)

\* Spawner.__init__
NewSpawner(direction, spawn_pos) ==
    [direction |-> direction, spawn_pos |-> spawn_pos,
     interval_range |-> <<INTERVAL_MIN, INTERVAL_MAX>>, next_spawn_ms |-> 0]

\* Variant of Spawner.update that schedules the next spawn from the time
\* the spawn was due, not from the time of the call
SpawnerUpdate_FromSchedule(sp, current_ms, cs, r) ==
    IF current_ms >= sp.next_spawn_ms
    THEN [spawner |-> [sp EXCEPT !.next_spawn_ms = sp.next_spawn_ms + r],
          cars |-> Append(cs, NewCar(sp.direction, sp.spawn_pos))]
    ELSE [spawner |-> sp, cars |-> cs]

\* Variant of Spawner.update that catches up: it spawns once for every
\* interval r that has passed since next_spawn_ms ("while" for "if")
SpawnerUpdate_CatchUp(sp, current_ms, cs, r) ==
    IF current_ms >= sp.next_spawn_ms
    THEN LET n == (current_ms - sp.next_spawn_ms) \div r + 1 IN
         [spawner |-> [sp EXCEPT !.next_spawn_ms = sp.next_spawn_ms + n * r],
          cars |-> cs \o [k \in 1..n |-> NewCar(sp.direction, sp.spawn_pos)]]
    ELSE [spawner |-> sp, cars |-> cs]

\* Spawner.update(current_ms, cars); r is what random.randint returns.
\* Gives the spawner and the list after the call.
SpawnerUpdate(sp, current_ms, cs, r) ==
    IF current_ms >= sp.next_spawn_ms
    THEN [spawner |-> [sp EXCEPT !.next_spawn_ms = current_ms + r],
          cars |-> Append(cs, NewCar(sp.direction, sp.spawn_pos))]
    ELSE [spawner |-> sp, cars |-> cs]

\* The loop "for spawner in self.spawners" of Simulation.update over the
\* four spawners; rnd[i] is the draw of the i-th spawner.  added lists how
\* many cars each call appended.
SpawnLoop(sps, current_ms, cs, rnd) ==
    LET r1 == SpawnerUpdate(sps[1], current_ms, cs, rnd[1])
        r2 == SpawnerUpdate(sps[2], current_ms, r1.cars, rnd[2])
        r3 == SpawnerUpdate(sps[3], current_ms, r2.cars, rnd[3])
        r4 == SpawnerUpdate(sps[4], current_ms, r3.cars, rnd[4])
    IN [spawners |-> <<r1.spawner, r2.spawner, r3.spawner, r4.spawner>>,
        cars |-> r4.cars,
        added |-> <<Len(r1.cars) - Len(cs), Len(r2.cars) - Len(r1.cars),
                    Len(r3.cars) - Len(r2.cars), Len(r4.cars) - Len(r3.cars)>>]

---------------------------------------------------------------------------
(* Simulation *)

\* list.remove(car): the list without its first element equal to car
RECURSIVE Remove(_, _)
Remove(cs, car) ==
    IF cs = <<>> THEN <<>>
    ELSE IF Head(cs) = car THEN Tail(cs)
    ELSE <<Head(cs)>> \o Remove(Tail(cs), car)

\* Variant of the car loop of Simulation.update that tests is_off_screen
\* before Car.update: a car is removed one step after it left the bounds
RECURSIVE CarLoop_CheckBefore(_, _, _, _, _)
CarLoop_CheckBefore(cs, k, removed, dtms, luces) ==
    IF k - removed > Len(cs) THEN cs
    ELSE LET old == cs[k - removed]
             car == CarUpdate(old, dtms, luces)
             cs2 == [cs EXCEPT ![k - removed] = car]
         IN IF is_off_screen(old)
            THEN CarLoop_CheckBefore(Remove(cs2, car), k + 1, removed + 1,
                                     dtms, luces)
            ELSE CarLoop_CheckBefore(cs2, k + 1, removed, dtms, luces)

\* The loop "for car in list(self.cars)" of Simulation.update from the k-th
\* car of the snapshot on.  cs is self.cars, from which removed cars of the
\* snapshot have been removed so far: the k-th car of the snapshot is
\* cs[k - removed].
RECURSIVE CarLoop(_, _, _, _, _)
CarLoop(cs, k, removed, dtms, luces) ==
    IF k - removed > Len(cs) THEN cs
    ELSE LET car == CarUpdate(cs[k - removed], dtms, luces)
             cs2 == [cs EXCEPT ![k - removed] = car]
         IN IF is_off_screen(car)
            THEN CarLoop(Remove(cs2, car), k + 1, removed + 1, dtms, luces)
            ELSE CarLoop(cs2, k + 1, removed, dtms, luces)

\* Observation: the cars of the snapshot that Car.update leaves where they
\* are (dt > 0).
Held(snapshot, dtms, luces) ==
    SelectSeq(snapshot, LAMBDA car : CarUpdate(car, dtms, luces) = car)

\* Variant of Simulation.update with the car loop before the spawner loop:
\* a car spawned in a step is first moved in the step after
SimUpdate_CarsFirst(dtms, current_ms, rnd) ==
    LET luces == LightsUpdate(traffic_light_ns, traffic_light_ew, current_ms)
        cs == CarLoop(cars, 1, 0, dtms, <<luces.ns, luces.ew>>)
        sp == SpawnLoop(spawners, current_ms, cs, rnd)
    IN [ns |-> luces.ns, ew |-> luces.ew, spawners |-> sp.spawners,
        added |-> sp.added,
        held |-> Held(cars, dtms, <<luces.ns, luces.ew>>),
        cars |-> sp.cars]

\* Simulation.update(dt, current_ms): the state after the call.
SimUpdate(dtms, current_ms, rnd) ==
    LET luces == LightsUpdate(traffic_light_ns, traffic_light_ew, current_ms)
        sp == SpawnLoop(spawners, current_ms, cars, rnd)
    IN [ns |-> luces.ns, ew |-> luces.ew, spawners |-> sp.spawners,
        added |-> sp.added,
        held |-> Held(sp.cars, dtms, <<luces.ns, luces.ew>>),
        cars |-> CarLoop(sp.cars, 1, 0, dtms, <<luces.ns, luces.ew>>)]

\* Simulation.handle_events over the events of one frame
RECURSIVE HandleEvents(_, _, _)
HandleEvents(events, run, pau) ==
    IF events = <<>> THEN [running |-> run, paused |-> pau]
    ELSE LET e == Head(events) IN
         IF e \in {"QUIT", "ESCAPE"}
         THEN HandleEvents(Tail(events), FALSE, pau)
         ELSE IF e = "SPACE" THEN HandleEvents(Tail(events), run, ~pau)
         ELSE HandleEvents(Tail(events), run, pau)

EventSeqs == UNION {[1..n -> EventKinds] : n \in 0..MaxEvents}

\* the draws a spawner may get in a call at current_ms
Draws(sp, current_ms) ==
    IF current_ms >= sp.next_spawn_ms THEN RandChoices ELSE {0}

AllDraws(current_ms) ==
    Draws(spawners[1], current_ms) \X Draws(spawners[2], current_ms)
        \X Draws(spawners[3], current_ms) \X Draws(spawners[4], current_ms)

\* Observation of a frame.  kind: what the frame did; frame: the frames so
\* far; dtms: the frame's Clock.tick();
\* added[i]: the cars the i-th spawner appended in the frame; held: the
\* cars Car.update left in place in the frame; last_spawn[i]: the time of
\* the i-th spawner's last spawn (-1: none yet); gap[i]: for a spawner
\* that spawned in the frame, the time since its spawn before (-1: none);
\* sim: the sum of the dt of the frames that called update (the time the
\* cars have been moved for).
NoTrace ==
    [kind |-> "init", frame |-> 0, dtms |-> 0, sim |-> 0,
     added |-> <<0, 0, 0, 0>>, held |-> <<>>,
     last_spawn |-> <<-1, -1, -1, -1>>, gap |-> <<-1, -1, -1, -1>>]

UpdateTrace(dtms, current_ms, up) ==
    [kind |-> "update", frame |-> trace.frame + 1, dtms |-> dtms,
     sim |-> trace.sim + dtms,
     added |-> up.added, held |-> up.held,
     last_spawn |-> [i \in 1..4 |-> IF up.added[i] > 0 THEN current_ms
                                    ELSE trace.last_spawn[i]],
     gap |-> [i \in 1..4 |-> IF up.added[i] > 0 /\ trace.last_spawn[i] >= 0
                             THEN current_ms - trace.last_spawn[i] ELSE -1]]

PausedTrace(dtms) ==
    [trace EXCEPT !.kind = "paused", !.frame = trace.frame + 1,
                  !.dtms = dtms, !.added = <<0, 0, 0, 0>>, !.held = <<>>,
                  !.gap = <<-1, -1, -1, -1>>]

\* Simulation.__init__: the flags, and the clock at the start of run
InitFlags ==
    /\ now = 0
    /\ running = TRUE
    /\ paused = FALSE

\* Simulation.__init__: the two lights
InitLights ==
    /\ traffic_light_ns =
         [orientation |-> "NORTE", state |-> "VERDE", last_change_ms |-> 0]
    /\ traffic_light_ew =
         [orientation |-> "ESTE", state |-> "ROJO", last_change_ms |-> 0]

\* Simulation.__init__: the four spawners
SpawnersAtStart ==
         << NewSpawner("SUR", <<Px(ANCHO_PANTALLA) \div 2 - Px(20), -Px(30)>>),
            NewSpawner("NORTE", <<Px(ANCHO_PANTALLA) \div 2 + Px(20),
                                  Px(ALTO_PANTALLA) + Px(30)>>),
            NewSpawner("ESTE", <<-Px(30), Px(ALTO_PANTALLA) \div 2 + Px(20)>>),
            NewSpawner("OESTE", <<Px(ANCHO_PANTALLA) + Px(30),
                                  Px(ALTO_PANTALLA) \div 2 - Px(20)>>) >>

InitSpawners == spawners = SpawnersAtStart

\* Simulation.__init__
Init ==
    /\ InitFlags
    /\ InitLights
    /\ cars = <<>>
    /\ InitSpawners
    /\ trace = NoTrace

\* Variant of the turn of the loop of Simulation.run in which update is
\* called, that tests the paused flag as it was before handle_events
FrameUpdate_StaleFlag(dtms, rnd, events) ==
    /\ running
    /\ \E up \in {SimUpdate(dtms, now + dtms, rnd)} :
       \E ev \in {HandleEvents(e, running, paused) : e \in events} :
          /\ ~paused
          /\ now' = now + dtms
          /\ running' = ev.running
          /\ paused' = ev.paused
          /\ traffic_light_ns' = up.ns
          /\ traffic_light_ew' = up.ew
          /\ spawners' = up.spawners
          /\ cars' = up.cars
          /\ trace' = UpdateTrace(dtms, now + dtms, up)

\* One turn of the loop of Simulation.run in which update is called:
\* paused is False after handle_events(events).  rnd are the spawners'
\* draws.
FrameUpdate(dtms, rnd, events) ==
    /\ running
    /\ \E up \in {SimUpdate(dtms, now + dtms, rnd)} :
       \E ev \in {HandleEvents(e, running, paused) : e \in events} :
          /\ ~ev.paused
          /\ now' = now + dtms
          /\ running' = ev.running
          /\ paused' = ev.paused
          /\ traffic_light_ns' = up.ns
          /\ traffic_light_ew' = up.ew
          /\ spawners' = up.spawners
          /\ cars' = up.cars
          /\ trace' = UpdateTrace(dtms, now + dtms, up)

\* One turn of the loop of Simulation.run in which update is skipped:
\* paused is True after handle_events(events).
FramePaused(dtms, events) ==
    /\ running
    /\ \E ev \in {HandleEvents(e, running, paused) : e \in events} :
          /\ ev.paused
          /\ now' = now + dtms
          /\ running' = ev.running
          /\ paused' = ev.paused
          /\ UNCHANGED <<traffic_light_ns, traffic_light_ew, spawners, cars>>
          /\ trace' = PausedTrace(dtms)

\* A frame of Simulation.run that calls update, with any tick, draws and
\* events
Update ==
    /\ trace.frame < MaxFrames
    /\ \E dtms \in DtSet :
          \E rnd \in AllDraws(now + dtms) : FrameUpdate(dtms, rnd, EventSeqs)

\* A frame of Simulation.run that skips update, with any tick and events
Paused ==
    /\ trace.frame < MaxFrames
    /\ \E dtms \in DtSet : FramePaused(dtms, EventSeqs)

Next == Update \/ Paused

Spec == Init /\ [][Next]_vars

---------------------------------------------------------------------------
(* Regular unpaused running: every frame calls update, with the same tick *)

\* frames a behaviour of SpecRegular is followed for
MaxRegularFrames == 8
\* the ticks (ms) of the regular runs
RegularDts == {1000, 2000}

UpdateRegular ==
    /\ trace.frame < MaxRegularFrames
    /\ \E dtms \in RegularDts :
          /\ trace.frame = 0 \/ dtms = trace.dtms
          /\ \E rnd \in AllDraws(now + dtms) : FrameUpdate(dtms, rnd, {<<>>})

SpecRegular == Init /\ [][UpdateRegular]_vars

---------------------------------------------------------------------------
(* TrafficLight.update alone, called on the leader at regular steps *)

\* periods of the light's cycle a behaviour of SpecLight is followed for
MaxPeriods == 2
\* the regular steps (ms): each has calls at 6000, 8000 and 16000
LightSteps == {16, 20, 40, 100, 250, 1000, 2000}

LightHorizon == MaxPeriods * 2 * (TIEMPO_VERDE + TIEMPO_AMARILLO)

InitLight ==
    /\ InitFlags
    /\ InitLights
    /\ cars = <<>>
    /\ InitSpawners
    /\ \E step \in LightSteps :
          trace = [kind |-> "light", frame |-> 0, dtms |-> step]

\* traffic_light_ns.update(current_ms) at the next step
LightTick ==
    /\ now + trace.dtms <= LightHorizon
    /\ now' = now + trace.dtms
    /\ traffic_light_ns' = TrafficLightUpdate(traffic_light_ns, now + trace.dtms)
    /\ trace' = [trace EXCEPT !.frame = trace.frame + 1]
    /\ UNCHANGED <<running, paused, traffic_light_ew, cars, spawners>>

SpecLight == InitLight /\ [][LightTick]_vars

---------------------------------------------------------------------------
(* TrafficLight.update alone, called on the leader after any gaps *)

\* calls of TrafficLight.update a behaviour of SpecLightCall is followed for
MaxLightCalls == 4
\* the time (ms) between two calls: a frame, each threshold and 1 ms less,
\* and a gap longer than the whole cycle
LightGaps == {16, 1999, 2000, 5999, 6000, 7999, 8000, 20000}

InitLightCall ==
    /\ InitFlags
    /\ InitLights
    /\ cars = <<>>
    /\ InitSpawners
    /\ trace = [kind |-> "call", frame |-> 0, dtms |-> 0,
                before |-> [orientation |-> "NORTE", state |-> "VERDE",
                            last_change_ms |-> 0]]

\* traffic_light_ns.update(current_ms), gap ms after the call before
LightCall ==
    /\ trace.frame < MaxLightCalls
    /\ \E gap \in LightGaps :
          /\ now' = now + gap
          /\ traffic_light_ns' = TrafficLightUpdate(traffic_light_ns, now + gap)
          /\ trace' = [kind |-> "call", frame |-> trace.frame + 1,
                       dtms |-> gap, before |-> traffic_light_ns]
    /\ UNCHANGED <<running, paused, traffic_light_ew, cars, spawners>>

SpecLightCall == InitLightCall /\ [][LightCall]_vars

---------------------------------------------------------------------------
(* Car.update alone, on one car anywhere on its lane under any lights *)

\* calls of Car.update a behaviour of SpecCar is followed for
MaxCarSteps == 1
\* dt (ms) offered to Car.update: frames at 60 FPS, and a long one
CarDtSet == {16, 17, 1000}
\* how long (ms of free motion at 0.12 px/ms) the car has run from its
\* spawn position: at the spawn position, and around the stop zones, which
\* the leading edge of a NORTE or SUR car enters after 357.5 px and that of
\* an ESTE or OESTE car after 507.5 px
MotionMs == {0} \cup (2950..3050) \cup (4200..4300)
\* the states of the two lights (leader, follower): never both not ROJO
LightPairs == {<<"VERDE", "ROJO">>, <<"AMARILLO", "ROJO">>, <<"ROJO", "ROJO">>,
               <<"ROJO", "VERDE">>, <<"ROJO", "AMARILLO">>}

\* the car of spawner sp after ms milliseconds of free motion
CarAt(sp, ms) ==
    LET car == NewCar(sp.direction, sp.spawn_pos) IN
    CarUpdate(car, ms, <<>>)

InitCar ==
    /\ InitFlags
    /\ InitLights
    /\ InitSpawners
    /\ \E i \in 1..4, ms \in MotionMs :
          /\ cars = <<CarAt(spawners[i], ms)>>
          /\ trace = [kind |-> "car", frame |-> 0, dtms |-> 0,
                      before |-> CarAt(spawners[i], ms)]

\* cars[0].update(dt, [traffic_light_ns, traffic_light_ew]) under any
\* states of the lights
CarStep ==
    /\ trace.frame < MaxCarSteps
    /\ \E dtms \in CarDtSet, pair \in LightPairs :
          \E ns \in {[traffic_light_ns EXCEPT !.state = pair[1]]},
             ew \in {[traffic_light_ew EXCEPT !.state = pair[2]]} :
             /\ traffic_light_ns' = ns
             /\ traffic_light_ew' = ew
             /\ cars' = <<CarUpdate(cars[1], dtms, <<ns, ew>>)>>
             /\ trace' = [kind |-> "car", frame |-> trace.frame + 1,
                          dtms |-> dtms, before |-> cars[1]]
             /\ UNCHANGED <<now, running, paused, spawners>>

SpecCar == InitCar /\ [][CarStep]_vars

---------------------------------------------------------------------------
(* The lights and the cars of Simulation.update at the frame rate, for ever *)

\* Clock.tick(60) (ms): the same in every frame of a run
FrameRateDts == {16, 17}

\* The state after the first frame, Simulation.update(dt, dt) on the state
\* __init__ leaves: it has spawned four cars and moved them once.  These
\* four cars are followed.  Car.update reads only the lights and the car's
\* own position, so the cars spawned later (left out here: the list would
\* grow without bound) do not change what happens to these four.
InitFrameRate ==
    /\ running = TRUE
    /\ paused = FALSE
    /\ \E dtms \in FrameRateDts, rnd \in [1..4 -> RandChoices] :
          LET ns0 == [orientation |-> "NORTE", state |-> "VERDE",
                      last_change_ms |-> 0]
              ew0 == [orientation |-> "ESTE", state |-> "ROJO",
                      last_change_ms |-> 0]
              luces == LightsUpdate(ns0, ew0, dtms)
              sp == SpawnLoop(SpawnersAtStart, dtms, <<>>, rnd)
          IN /\ now = dtms
             /\ traffic_light_ns = luces.ns
             /\ traffic_light_ew = luces.ew
             /\ spawners = sp.spawners
             /\ cars = CarLoop(sp.cars, 1, 0, dtms, <<luces.ns, luces.ew>>)
             /\ trace = [kind |-> "framerate", frame |-> 1, dtms |-> dtms]

\* The clock and the lights part of Simulation.update in one more frame,
\* at current_ms = now + dt.  Times are kept relative to the start of the
\* leader's current period: in the step in which the leader turns VERDE
\* both lights have last_change_ms = current_ms, and that instant becomes
\* the new origin of the clock (the code reads times only through the
\* difference current_ms - last_change_ms, so the lights go on as from 0).
FrameRateLights ==
    LET current_ms == now + trace.dtms
        luces == LightsUpdate(traffic_light_ns, traffic_light_ew, current_ms)
        origin == IF luces.ns.state = "VERDE"
                     /\ luces.ns.last_change_ms = current_ms
                     /\ luces.ew.last_change_ms = current_ms
                  THEN current_ms ELSE 0
    IN /\ now' = current_ms - origin
       /\ traffic_light_ns' = [luces.ns EXCEPT !.last_change_ms = @ - origin]
       /\ traffic_light_ew' = [luces.ew EXCEPT !.last_change_ms = @ - origin]

\* One more frame: the lights part, then the car loop of Simulation.update
\* under the lights as just updated.
FrameRateTick ==
    /\ FrameRateLights
    /\ cars' = CarLoop(cars, 1, 0, trace.dtms,
                       <<traffic_light_ns', traffic_light_ew'>>)
    /\ UNCHANGED <<running, paused, spawners, trace>>

\* The loop of Simulation.run goes on while running: the frame is always
\* taken again.  Every step of the specification is a whole frame, and a
\* frame always moves the clock, so the fairness is stated on the clock
\* and lights part of the frame.
SpecFrameRate ==
    InitFrameRate /\ [][FrameRateTick]_vars /\ WF_now(FrameRateLights)

---------------------------------------------------------------------------
(* Geometry used by the properties *)

\* the light of a car's own axis
OwnLight(car) ==
    IF car.direction \in {"NORTE", "SUR"} THEN traffic_light_ns
    ELSE traffic_light_ew

\* the coordinate of a car's leading edge along its direction of travel
LeadingEdge(car) ==
    IF car.direction = "NORTE" THEN car.y - HalfLength(car)
    ELSE IF car.direction = "SUR" THEN car.y + HalfLength(car)
    ELSE IF car.direction = "OESTE" THEN car.x - HalfLength(car)
    ELSE car.x + HalfLength(car)

\* car moved by the full speed * dt along its direction from where b was
MovedFull(b, car, dtms) ==
    /\ car.x = b.x + (IF b.direction = "ESTE" THEN 2 * b.speed * dtms
                      ELSE IF b.direction = "OESTE" THEN -(2 * b.speed * dtms)
                      ELSE 0)
    /\ car.y = b.y + (IF b.direction = "SUR" THEN 2 * b.speed * dtms
                      ELSE IF b.direction = "NORTE" THEN -(2 * b.speed * dtms)
                      ELSE 0)

\* the leading edge lies strictly inside the 5 px stop zone of the direction
StrictlyInStopZone(car) ==
    LET e == LeadingEdge(car) IN
    \/ car.direction = "NORTE" /\ Px(255) < e /\ e < Px(260)
    \/ car.direction = "SUR" /\ Px(340) < e /\ e < Px(345)
    \/ car.direction = "OESTE" /\ Px(405) < e /\ e < Px(410)
    \/ car.direction = "ESTE" /\ Px(490) < e /\ e < Px(495)

\* the leading edge is at or beyond the far boundary of the stop zone
PastStopZone(car) ==
    LET e == LeadingEdge(car) IN
    \/ car.direction = "NORTE" /\ e <= Px(255)
    \/ car.direction = "SUR" /\ e >= Px(345)
    \/ car.direction = "OESTE" /\ e <= Px(405)
    \/ car.direction = "ESTE" /\ e >= Px(495)

\* the leading edge has not passed the first boundary of the intersection
\* box (x in [410, 490], y in [260, 340]) the car meets
BeforeBox(car) ==
    LET e == LeadingEdge(car) IN
    \/ car.direction = "NORTE" /\ e >= Px(340)
    \/ car.direction = "SUR" /\ e <= Px(260)
    \/ car.direction = "OESTE" /\ e >= Px(490)
    \/ car.direction = "ESTE" /\ e <= Px(410)

\* the rectangle a car covers (Car.rect, without pygame's rounding)
Footprint(car) ==
    IF car.direction \in {"NORTE", "SUR"}
    THEN [x1 |-> car.x - 1000 * car.width, x2 |-> car.x + 1000 * car.width,
          y1 |-> car.y - 1000 * car.length, y2 |-> car.y + 1000 * car.length]
    ELSE [x1 |-> car.x - 1000 * car.length, x2 |-> car.x + 1000 * car.length,
          y1 |-> car.y - 1000 * car.width, y2 |-> car.y + 1000 * car.width]

Overlap(r, q) ==
    r.x1 < q.x2 /\ q.x1 < r.x2 /\ r.y1 < q.y2 /\ q.y1 < r.y2

IntersectionBox ==
    [x1 |-> Px(410), x2 |-> Px(490), y1 |-> Px(260), y2 |-> Px(340)]

\* the cars the spawners append in a frame in which the i-th spawner
\* appends added[i] cars, in the order of the spawners
Spawned(added) ==
    LET all == [i \in 1..4 |->
                  NewCar(spawners[i].direction, spawners[i].spawn_pos)]
        idx == SelectSeq(<<1, 2, 3, 4>>, LAMBDA i : added[i] > 0)
    IN [k \in 1..Len(idx) |-> all[idx[k]]]

\* every car of cs after its own Car.update(dt, luces)
MoveAll(cs, dtms, luces) ==
    [k \in 1..Len(cs) |-> CarUpdate(cs[k], dtms, luces)]

\* the cars of cs that are not off screen, in their order
InBounds(cs) == SelectSeq(cs, LAMBDA car : ~is_off_screen(car))

\* the time a light stays in a state, and the state that follows it
PhaseTime(state) ==
    IF state = "VERDE" THEN TIEMPO_VERDE
    ELSE IF state = "AMARILLO" THEN TIEMPO_AMARILLO
    ELSE TIEMPO_VERDE + TIEMPO_AMARILLO

NextPhase(state) ==
    IF state = "VERDE" THEN "AMARILLO"
    ELSE IF state = "AMARILLO" THEN "ROJO"
    ELSE "VERDE"

\* car displaced by speed * dt along its direction
FullMove(car, dtms) ==
    IF car.direction = "NORTE" THEN [car EXCEPT !.y = @ - 2 * car.speed * dtms]
    ELSE IF car.direction = "SUR"
    THEN [car EXCEPT !.y = @ + 2 * car.speed * dtms]
    ELSE IF car.direction = "ESTE"
    THEN [car EXCEPT !.x = @ + 2 * car.speed * dtms]
    ELSE [car EXCEPT !.x = @ - 2 * car.speed * dtms]

---------------------------------------------------------------------------
(* Properties *)

\* C1. Mutual exclusion: after every Simulation.update, with any spacing of
\* the calls, the two lights are never both not ROJO.
C1_MutualExclusion ==
    ~(traffic_light_ns.state # "ROJO" /\ traffic_light_ew.state # "ROJO")

\* The follower has been released: it is VERDE while the leader is ROJO.
C1_Witness ==
    /\ trace.kind = "update"
    /\ traffic_light_ns.state = "ROJO"
    /\ traffic_light_ew.state = "VERDE"

\* C2. Follower slaving: in regular unpaused running, once the leader has
\* become ROJO at time T the follower is VERDE from T, AMARILLO at the step
\* of T + 6000 and ROJO at the step of T + 8000; and it is ROJO while the
\* leader is not ROJO.
C2_FollowerSlaving ==
    LET T == traffic_light_ns.last_change_ms IN
    /\ traffic_light_ns.state = "ROJO" /\ now < T + 6000
          => traffic_light_ew.state = "VERDE"
    /\ traffic_light_ns.state = "ROJO" /\ now = T + 6000
          => traffic_light_ew.state = "AMARILLO"
    /\ now = T + 8000 /\ trace.frame > 0 => traffic_light_ew.state = "ROJO"
    /\ traffic_light_ns.state # "ROJO" => traffic_light_ew.state = "ROJO"

\* C3. Right of way comes from the light of the car's own axis alone: when
\* that light is VERDE, Car.update moves the car by the full speed * dt,
\* wherever the car is.
C3_OwnGreenMoves ==
    trace.frame > 0 /\ OwnLight(trace.before).state = "VERDE"
        => MovedFull(trace.before, cars[1], trace.dtms)

\* C4. A car that started from its spawner's position and is left in place
\* by Car.update has not passed the first boundary of the intersection box
\* it meets, and its footprint does not overlap the box.
C4_HeldBeforeBox ==
    \A k \in 1..Len(trace.held) :
        /\ BeforeBox(trace.held[k])
        /\ ~Overlap(Footprint(trace.held[k]), IntersectionBox)

\* C5. Cycle of the leader: starting VERDE at 0 and updated at regular
\* steps, it is AMARILLO after the call at 6000 ms, ROJO after the call at
\* 8000 ms and VERDE after the call at 16000 ms, and so on with period
\* 16000 ms.
C5_CycleDeterminism ==
    /\ now % 16000 = 6000 => traffic_light_ns.state = "AMARILLO"
    /\ now % 16000 = 8000 => traffic_light_ns.state = "ROJO"
    /\ now % 16000 = 0 => traffic_light_ns.state = "VERDE"

\* The second period has been entered: AMARILLO after the call at 22000 ms.
C5_Witness ==
    /\ now = 16000 + 6000
    /\ traffic_light_ns.state = "AMARILLO"
    /\ traffic_light_ns.last_change_ms = now

\* C6. Stop-zone halt: a car whose leading edge is strictly inside the stop
\* zone of its direction while the light of its axis is AMARILLO or ROJO is
\* left where it is by Car.update.
C6_StopZoneHalt ==
    trace.frame > 0 /\ StrictlyInStopZone(trace.before)
                    /\ OwnLight(trace.before).state \in {"AMARILLO", "ROJO"}
        => cars[1].x = trace.before.x /\ cars[1].y = trace.before.y

\* A SUR car in its stop zone under a ROJO leader has been updated.
C6_Witness ==
    /\ trace.frame > 0
    /\ trace.before.direction = "SUR"
    /\ StrictlyInStopZone(trace.before)
    /\ traffic_light_ns.state = "ROJO"
    /\ cars[1] = trace.before

\* C7. Commit rule: a car whose leading edge is at or beyond the far
\* boundary of its stop zone is moved by the full speed * dt by Car.update,
\* whatever the lights.
C7_CommitRule ==
    trace.frame > 0 /\ PastStopZone(trace.before)
        => MovedFull(trace.before, cars[1], trace.dtms)

\* A NORTE car past its stop zone has been updated under a leader that is
\* not VERDE, and has moved.
C7_Witness ==
    /\ trace.frame > 0
    /\ trace.before.direction = "NORTE"
    /\ PastStopZone(trace.before)
    /\ traffic_light_ns.state \in {"AMARILLO", "ROJO"}
    /\ cars[1].y < trace.before.y

\* C8. No two active cars of the same direction have overlapping
\* footprints.
C8_NoOverlap ==
    \A i, j \in 1..Len(cars) :
        i < j /\ cars[i].direction = cars[j].direction
            => ~Overlap(Footprint(cars[i]), Footprint(cars[j]))

\* C9. Spawner cadence: a spawner that has just spawned at t0 has its
\* next_spawn_ms in [t0 + 1500, t0 + 4000]; next_spawn_ms is never before
\* the spawner's last spawn; two consecutive spawns of a spawner are at
\* least 1500 ms apart.
C9_SpawnerCadence ==
    \A i \in 1..4 :
        /\ trace.added[i] > 0
              => /\ spawners[i].next_spawn_ms >= now + 1500
                 /\ spawners[i].next_spawn_ms <= now + 4000
        /\ trace.last_spawn[i] >= 0
              => spawners[i].next_spawn_ms >= trace.last_spawn[i]
        /\ trace.gap[i] >= 0 => trace.gap[i] >= 1500

\* A spawner has spawned for the second time.
C9_Witness ==
    \E i \in 1..4 : trace.added[i] > 0 /\ trace.gap[i] >= 1500

\* C10. No catch-up spawning: one call of Spawner.update appends at most
\* one car, so one Simulation.update appends at most four.
C10_NoCatchUp ==
    /\ \A i \in 1..4 : trace.added[i] <= 1
    /\ trace.added[1] + trace.added[2] + trace.added[3] + trace.added[4] <= 4

\* A spawner is called when two whole intervals have passed since its
\* next_spawn_ms (8000 >= 2 * 4000), and appends one car.
C10_Witness ==
    /\ trace.kind = "update"
    /\ trace.frame = 1
    /\ now >= 2 * 4000
    /\ trace.added = <<1, 1, 1, 1>>
    /\ Len(cars) <= 4

\* C11. Culling: after every Simulation.update no active car is off screen
\* (more than 50 px outside the bounds), and the active cars are exactly
\* the cars of before the step and the cars spawned in it that are within
\* these bounds after their motion, in their order: a car is removed in
\* the step in which it leaves the bounds, and no car within the bounds is
\* removed.
C11_Culling ==
    [][trace'.kind = "update" =>
         /\ \A k \in 1..Len(cars') : ~is_off_screen(cars'[k])
         /\ cars' = InBounds(MoveAll(cars \o Spawned(trace'.added),
                                     trace'.dtms,
                                     <<traffic_light_ns', traffic_light_ew'>>))
      ]_vars

\* Third step of 2000 ms: the first NORTE car (at y = 150 after the second
\* step) has left the bounds and is gone, the first ESTE car (x = 690) is
\* still active.
C11_Witness ==
    /\ trace.kind = "update" /\ trace.frame = 3 /\ trace.dtms = 2000
    /\ \E k \in 1..Len(cars) :
          cars[k].direction = "ESTE" /\ cars[k].x = Px(690)
    /\ \A k \in 1..Len(cars) :
          cars[k].direction = "NORTE" => cars[k].y > Px(150)

\* C12. Pause idempotence: a frame of the main loop in which paused is
\* True when the loop tests it (after handle_events) leaves both lights
\* (state and last_change_ms), the list of cars with their positions, and
\* the spawners (next_spawn_ms) as they were; so does any number of such
\* frames.
C12_PauseIdempotence ==
    [][paused' =>
         UNCHANGED <<traffic_light_ns, traffic_light_ew, cars, spawners>>
      ]_vars

\* Two paused frames in a row, after one update at 1000 ms that spawned
\* four cars: the follower's last_change_ms is still that update's time.
C12_Witness ==
    /\ trace.kind = "paused" /\ trace.frame = 3
    /\ paused
    /\ now >= 3000
    /\ Len(cars) = 4
    /\ traffic_light_ew.last_change_ms = 1000

\* C13. Time spent paused does not count: the leader, VERDE since the
\* start, is still VERDE (and has not changed) as long as the frames that
\* called update add up to less than 6000 ms, however long the paused
\* frames in between lasted.
C13_PausedTimeNotCounted ==
    trace.sim < TIEMPO_VERDE
        => /\ traffic_light_ns.state = "VERDE"
           /\ traffic_light_ns.last_change_ms = 0

\* C14. Phase order: between two consecutive steps each light either keeps
\* its state or goes VERDE -> AMARILLO, AMARILLO -> ROJO or ROJO -> VERDE.
C14_PhaseOrder ==
    [][\A luz \in {<<traffic_light_ns.state, traffic_light_ns'.state>>,
                   <<traffic_light_ew.state, traffic_light_ew'.state>>} :
          \/ luz[1] = luz[2]
          \/ luz \in {<<"VERDE", "AMARILLO">>, <<"AMARILLO", "ROJO">>,
                      <<"ROJO", "VERDE">>}
      ]_vars

\* C15. The follower's phase clock starts when the leader becomes ROJO:
\* after the update step of time T in which the leader's state changes to
\* ROJO, the follower's last_change_ms is T.
C15_FollowerClockStart ==
    /\ trace.kind = "update"
    /\ traffic_light_ns.state = "ROJO"
    /\ traffic_light_ns.last_change_ms = now
    => traffic_light_ew.last_change_ms = now

\* C16. One call of TrafficLight.update, whatever the time since the call
\* before: with the elapsed time below the threshold of the light's state
\* it changes nothing; otherwise the state becomes the next one of the
\* cycle (one phase, even when several thresholds have passed) and
\* last_change_ms becomes current_ms.  last_change_ms is written exactly
\* when the state changes.
C16_OnePhasePerCall ==
    trace.frame > 0 =>
        LET b == trace.before
            elapsed == now - b.last_change_ms
        IN /\ elapsed < PhaseTime(b.state) => traffic_light_ns = b
           /\ elapsed >= PhaseTime(b.state)
                 => traffic_light_ns =
                      [b EXCEPT !.state = NextPhase(b.state),
                                !.last_change_ms = now]
           /\ traffic_light_ns.state # b.state
                 <=> traffic_light_ns.last_change_ms # b.last_change_ms

\* A VERDE light called 20000 ms after its last change is AMARILLO.
C16_Witness ==
    /\ trace.frame > 0
    /\ trace.before.state = "VERDE"
    /\ now - trace.before.last_change_ms >= 20000
    /\ traffic_light_ns.state = "AMARILLO"
    /\ traffic_light_ns.last_change_ms = now

\* C17. Step order lights, spawners, cars: after a Simulation.update the
\* active list is the cars of before the step, each as Car.update leaves
\* it under the light states the step has set for its current_ms, followed
\* by the cars spawned in the step, each displaced from its spawn position
\* by speed * dt along its direction (without the cars that left the
\* bounds).
C17_StepOrder ==
    [][trace'.kind = "update" =>
         LET luces == <<traffic_light_ns', traffic_light_ew'>>
             new == Spawned(trace'.added)
         IN cars' = InBounds(MoveAll(cars, trace'.dtms, luces))
                    \o InBounds([k \in 1..Len(new) |->
                                   FullMove(new[k], trace'.dtms)])
      ]_vars

\* The NORTE spawner has spawned in a later step of 1000 ms, and its new
\* car is 120 px from the spawn position (y = 630) after the step.
C17_Witness ==
    /\ trace.kind = "update" /\ trace.frame >= 2 /\ trace.dtms = 1000
    /\ trace.added[2] = 1
    /\ Len(cars) > 0
    /\ cars[Len(cars)].direction \in {"NORTE", "ESTE", "OESTE"}
    /\ \E k \in 1..Len(cars) :
          cars[k].direction = "NORTE" /\ cars[k].y = Px(630) - Px(120)

\* C18. Frame of Car.update: the call changes only the car's coordinate
\* along its direction of travel (y for NORTE and SUR, x for ESTE and
\* OESTE), by 0 or by speed * dt in the direction's sense; the other
\* coordinate, the direction, speed, length and width are as before, no
\* car is added or removed, and the lights' last_change_ms and orientation
\* and the spawners are as constructed.
C18_CarUpdateFrame ==
    trace.frame > 0 =>
        LET b == trace.before
            c == cars[1]
            d == Displacement(b, trace.dtms)
        IN /\ Len(cars) = 1
           /\ c.direction = b.direction /\ c.speed = b.speed
           /\ c.length = b.length /\ c.width = b.width
           /\ b.direction = "NORTE" => c.x = b.x /\ c.y \in {b.y, b.y - d}
           /\ b.direction = "SUR" => c.x = b.x /\ c.y \in {b.y, b.y + d}
           /\ b.direction = "ESTE" => c.y = b.y /\ c.x \in {b.x, b.x + d}
           /\ b.direction = "OESTE" => c.y = b.y /\ c.x \in {b.x, b.x - d}
           /\ traffic_light_ns.last_change_ms = 0
           /\ traffic_light_ns.orientation = "NORTE"
           /\ traffic_light_ew.last_change_ms = 0
           /\ traffic_light_ew.orientation = "ESTE"
           /\ \A i \in 1..4 : spawners[i].next_spawn_ms = 0

\* An ESTE car has been moved by a frame of 16 ms: 1.92 px along x.
C18_Witness ==
    /\ trace.frame > 0 /\ trace.dtms = 16
    /\ trace.before.direction = "ESTE"
    /\ cars[1].x = trace.before.x + Displacement(trace.before, 16)
    /\ cars[1].y = trace.before.y

\* C19. Liveness: with update called for ever at regular frame-rate steps,
\* every car that was spawned is eventually removed from the active list.
C19_EveryCarLeaves == <>(cars = <<>>)

\* C20. Crossing safety at the frame rate: a car of the NORTE/SUR axis and
\* a car of the ESTE/OESTE axis never have their footprints overlapping the
\* intersection box at the same time.
C20_CrossingSafety ==
    \A i, j \in 1..Len(cars) :
        /\ cars[i].direction \in {"NORTE", "SUR"}
        /\ cars[j].direction \in {"ESTE", "OESTE"}
        => ~(/\ Overlap(Footprint(cars[i]), IntersectionBox)
             /\ Overlap(Footprint(cars[j]), IntersectionBox))

===========================================================================
